---- MODULE Spec2Model ----
(***************************************************************************)
(* The Configure extension of zigbee2mqtt (src/unnamed/part_000, lines     *)
(* 14-141) as a state machine.  Node.js runs one callback at a time, so a  *)
(* step of the model is one run of a callback or of an async function     *)
(* from one await to the next: an event handler up to the await of the     *)
(* device's configure routine, and the continuation after that routine has *)
(* settled (up to the caller's next await).                                *)
(***************************************************************************)
EXTENDS Integers, Sequences, FiniteSets, Bags, TLC

(* ------------------------------ bounds -------------------------------- *)

\* Messages accepted on the configure request topic in one behaviour.
MaxRequests == 1

(* ----------------------------- the world ------------------------------ *)

\* ieeeAddr of the devices known to zigbee (also used as their names).
Devices == {"d1", "d2"}

\* The order in which zigbee.devicesIterator yields the devices.
DeviceOrder == <<"d1", "d2">>

\* JavaScript's undefined, for a string-valued field.
Undefined == "undefined"

\* The ceiling attempts[ieeeAddr] is compared to (line 111).
MaxAttempts == 3

\* zhc.getConfigureKey(definition), the value of a configured marker.
ConfigureKey == "key"

\* What configure() reads of a Device: zh.type, definition?.configure,
\* options.disabled, interviewed.
RouterProfile ==
    [type |-> "Router", hasConfigure |-> TRUE, disabled |-> FALSE, interviewed |-> TRUE]
DeviceProfiles ==
    { RouterProfile,
      [type |-> "EndDevice", hasConfigure |-> TRUE, disabled |-> FALSE, interviewed |-> TRUE],
      [type |-> "Coordinator", hasConfigure |-> FALSE, disabled |-> FALSE, interviewed |-> TRUE],
      [type |-> "Router", hasConfigure |-> FALSE, disabled |-> FALSE, interviewed |-> TRUE],
      [type |-> "Router", hasConfigure |-> TRUE, disabled |-> TRUE, interviewed |-> TRUE],
      [type |-> "Router", hasConfigure |-> TRUE, disabled |-> FALSE, interviewed |-> FALSE] }

\* The five subscriptions start() registers (lines 70-81).
AllListeners == {"deviceJoined", "deviceInterview", "lastSeenChanged", "mqttMessage", "reconfigure"}

\* this.topic (line 17) and some other topic of the bus.
topic == "zigbee2mqtt/bridge/request/device/configure"
OtherTopic == "zigbee2mqtt/bridge/request/device/remove"

VARIABLES
    device,       \* Device objects: [Devices -> DeviceProfiles]
    meta,         \* device.zh.meta.configured of each device (Undefined: absent)
    saved,        \* the marker as last persisted by device.zh.save()
    listeners,    \* the event names this extension is subscribed to
    sweepPc,      \* position of the setImmediate task of start()
    sweepIdx,     \* index in Routers of the device the sweep is at
    configuring,  \* this.configuring
    attempts,     \* this.attempts: a function on the keys set so far
    calls,        \* bag of configure() invocations awaiting the device's routine
    received,     \* messages received on the configure request topic
    published,    \* publications made on bridge/response/device/configure
    response,     \* the response the last step published (NoResponse: none)
    escaped,      \* exceptions that left a handler: {[handler, error]}
    handled,      \* the callback the last step ran: [name, device, caller]
    logged,       \* what the last step wrote to the logger, in order
    saves,        \* device.zh.save() calls the last step made
    emitted,      \* devicesChanged events the last step emitted
    overtaken     \* the devices with an attempt in flight that started before
                  \* the latest device-joined or reconfigure event for them

\* The Frontend extension (lines 167-372) and the sockets of its clients.
VARIABLES
    server,       \* this.server: "undefined", "listening", "closing" or "closed"
    stopPc,       \* position of Frontend.stop(): "idle", "revoked", "closing", "done"
    subscribed,   \* the event names the Frontend is subscribed to
    authToken,    \* settings.get().frontend.auth_token
    lastSeen,     \* settings.get().advanced.last_seen
    retained,     \* mqtt.retainedMessages, in the order of Object.entries
    readyState,   \* readyState of each client's WebSocket ("NONE": no upgrade yet)
    clients,      \* this.wss.clients
    closeCode,    \* the code ws.close() was called with (0: not called)
    accepted,     \* the clients handed to onWebSocketConnection
    inbox,        \* per client, the send() calls made on its WebSocket, in order
    events,       \* bus events emitted so far
    fhandled      \* the Frontend callback the last step ran

\* The state of the Configure extension, and of the Frontend extension.
cvars == <<device, meta, saved, listeners, sweepPc, sweepIdx, configuring, attempts,
           calls, received, published, response, escaped, handled, logged,
           saves, emitted, overtaken>>
fvars == <<server, stopPc, subscribed, authToken, lastSeen, retained, readyState,
           clients, closeCode, accepted, inbox, events, fhandled>>

vars == <<cvars, fvars>>

(* ----------------------------- helpers -------------------------------- *)

\* Line 63 without its filter: the sweep goes over every device.
EveryDevice == DeviceOrder

\* zigbee.devicesIterator((d) => d.type === "Router") of start() (line 63).
Routers == SelectSeq(DeviceOrder, LAMBDA d : device[d].type = "Router")

\* Names that resolve to a group, and a name that resolves to nothing.
Groups == {"g1"}
UnknownID == "bad"

\* Payloads of a bus message: the bare identifier x (text that is not JSON),
\* the JSON object {"id": x} ({} when x is Undefined), and the JSON text null.
Text(x) == [form |-> "text", text |-> x, id |-> Undefined]
Object(x) == [form |-> "object", text |-> Undefined, id |-> x]
Null == [form |-> "null", text |-> Undefined, id |-> Undefined]
Messages ==
    {Text(d) : d \in Devices} \cup {Object(d) : d \in Devices}
        \cup {Text("g1"), Object(UnknownID), Object(Undefined), Null}

\* eventdata.MQTTMessage: every payload on the configure request topic, and
\* a message on another topic.
MQTTMessages ==
    {[topic |-> topic, message |-> m] : m \in Messages}
        \cup {[topic |-> OtherTopic, message |-> Text("d1")]}

\* utils.parseJSON(value, fallback): the decoded value when value is JSON,
\* else the fallback (here the text itself).
parseJSON(value, fallback) == IF value.form = "text" THEN fallback ELSE value

\* JavaScript's typeof: a string for text, "object" for an object and for null.
TypeOf(v) == IF v.form = "text" THEN "string" ELSE "object"

\* zigbee.resolveEntity(ID) with the instanceof Device test of line 40.
resolveEntity(ID) ==
    IF ID \in Devices THEN [kind |-> "Device", ieeeAddr |-> ID]
    ELSE IF ID \in Groups THEN [kind |-> "Group", ieeeAddr |-> Undefined]
    ELSE [kind |-> Undefined, ieeeAddr |-> Undefined]

\* utils.getResponse(message, {id: ID}, error).
getResponse(ID, error) ==
    [id |-> ID, status |-> IF error = Undefined THEN "ok" ELSE "error", error |-> error]

\* No publication.
NoResponse == [id |-> Undefined, status |-> Undefined, error |-> Undefined]

\* The callback a step ran: an event handler (caller Undefined), or the
\* continuation of the configure() call that caller awaits.
Handled(name, d, caller) == [name |-> name, device |-> d, caller |-> caller]

\* A line of the log.
Log(text, d, attempt) == [text |-> text, device |-> d, attempt |-> attempt]

\* A configure() invocation suspended at the await of line 123, with what
\* is still read once the routine has settled: the device, throwError and
\* the caller that awaits it ("start": the sweep, "onMQTTMessage", or
\* "listener": one of the four other handlers, which do nothing afterwards).
Call(d, throwError, caller) == [device |-> d, throwError |-> throwError, caller |-> caller]

\* The invocations of d's configure routine that are in flight.
CallsOf(d) == {c \in BagToSet(calls) : c.device = d}
RECURSIVE SumCopies(_, _)
SumCopies(B, S) ==
    IF S = {} THEN 0
    ELSE LET c == CHOOSE x \in S : TRUE IN CopiesIn(c, B) + SumCopies(B, S \ {c})
InFlight(d) == SumCopies(calls, CallsOf(d))

(* ------------------------ configure(), lines 86-140 ------------------- *)

\* Line 92 without its test: every device is taken to have a routine.
NoRoutineUnchecked(d) == FALSE

\* Line 92: no definition, or a definition without a configure routine.
NoRoutine(d) == ~device[d].hasConfigure

\* Lines 97-108 without the marker test of line 101.
NotEligibleIgnoringMarker(d, event, m) ==
    \/ device[d].disabled \/ ~device[d].interviewed
    \/ device[d].type = "EndDevice" /\ event # "zigbee_event"

\* Lines 97-108 without the end-device test of line 106.
NotEligibleAnyType(d, event, m) ==
    \/ device[d].disabled \/ ~device[d].interviewed
    \/ m[d] # Undefined

\* Lines 97-108, with m the markers at the time of the call.
NotEligible(d, event, m) ==
    \/ device[d].disabled \/ ~device[d].interviewed
    \/ m[d] # Undefined
    \/ device[d].type = "EndDevice" /\ event # "zigbee_event"

\* The comparison of line 111 written with > for >=.
AttemptsReachedLate(d) == d \in DOMAIN attempts /\ attempts[d] > MaxAttempts

\* this.attempts[ieeeAddr] >= 3, false while the key is not set.
AttemptsReached(d) == d \in DOMAIN attempts /\ attempts[d] >= MaxAttempts

\* Line 111 without the test of this.configuring.
BusyIgnoringConfiguring(d, force) == AttemptsReached(d) /\ ~force

\* Line 111.
Busy(d, force) == d \in configuring \/ (AttemptsReached(d) /\ ~force)

\* Lines 92-113 without the test of line 96: the checks of lines 97-108
\* apply to a forced call too.
SkipsThoughForced(d, event, force, m) ==
    \/ NoRoutine(d)
    \/ NotEligible(d, event, m)
    \/ Busy(d, force)

\* Lines 92-113: whether the call returns before invoking the routine.
Skips(d, event, force, m) ==
    \/ NoRoutine(d)
    \/ ~force /\ NotEligible(d, event, m)
    \/ Busy(d, force)

\* Lines 115-123: the call up to its await, as the new values of what it
\* writes; invoked tells whether the routine was called.
configure(d, event, force, throwError, caller, m) ==
    IF Skips(d, event, force, m)
    THEN [invoked |-> FALSE, configuring |-> configuring, attempts |-> attempts,
          calls |-> calls, logged |-> << >>]
    ELSE [invoked |-> TRUE,
          configuring |-> configuring \cup {d},
          attempts |-> IF d \in DOMAIN attempts THEN attempts ELSE (d :> 0) @@ attempts,
          calls |-> calls (+) SetToBag({Call(d, throwError, caller)}),
          logged |-> <<Log("Configuring", d, 0)>>]

\* The for loop of the sweep after the device at index i: the next sleep, or the end.
SweepAfter(i) ==
    IF i + 1 > Len(Routers) THEN [pc |-> "done", idx |-> i + 1]
    ELSE [pc |-> "sleeping", idx |-> i + 1]


(* ------------------- the Frontend's world, lines 167-191 -------------- *)

\* Bus events emitted to the Frontend in one behaviour.
MaxEvents == 2

\* The browsers that may open a WebSocket.
Clients == {"c1", "c2"}

\* this.mqttBaseTopic (line 190).  A topic is the sequence of its segments.
mqttBaseTopic == "zigbee2mqtt"

\* The close code of line 301.
Unauthorized == 4401

\* Values of frontend.auth_token, and of the token of an upgrade's query string.
AuthTokens == {Undefined, "", "secret"}
QueryTokens == {Undefined, "secret", "wrong"}

\* topic.startsWith(`${this.mqttBaseTopic}/`) (lines 317 and 350).
startsWithBase(t) == Len(t) >= 2 /\ t[1] = mqttBaseTopic

\* topic.substring(this.mqttBaseTopic.length + 1) (lines 321 and 358).
stripBase(t) == Tail(t)

\* stringify({topic, payload}): the message a send() call is given.
Message(t, payload) == [topic |-> t, payload |-> payload]

\* A send() call as the inbox records it: the message, and the readyState
\* the socket had when send() was called.
Sent(msg, state) == [topic |-> msg.topic, payload |-> msg.payload, at |-> state]

\* The notification of line 255.
Offline == Message(<<"bridge", "state">>, [state |-> "offline"])

\* Contents of mqtt.retainedMessages: one topic outside the base namespace
\* between two topics under it.
RetainedMaps ==
    { << >>,
      << [topic |-> <<mqttBaseTopic, "bridge", "state">>, payload |-> Text("online")],
         [topic |-> <<"homeassistant", "status">>, payload |-> Text("online")],
         [topic |-> <<mqttBaseTopic, "d1">>, payload |-> Object("d1")] >>,
      << [topic |-> <<mqttBaseTopic, "d1">>, payload |-> Object("d1")],
         [topic |-> <<mqttBaseTopic, "bridge", "state">>, payload |-> Text("online")] >> }

\* eventdata.MQTTMessagePublished and eventdata.PublishEntityState.
MQTTMessagePublished(t, payload, isEntityState) ==
    [topic |-> t, payload |-> payload, options |-> [meta |-> [isEntityState |-> isEntityState]]]
PublishEntityState(d, message) == [entity |-> d, message |-> message]
BusEvents ==
    { MQTTMessagePublished(<<mqttBaseTopic, "bridge", "info">>, Object("info"), FALSE),
      MQTTMessagePublished(<<mqttBaseTopic, "d1">>, Object("d1"), TRUE),
      MQTTMessagePublished(<<"homeassistant", "status">>, Text("online"), FALSE),
      MQTTMessagePublished(<<mqttBaseTopic>>, Text("online"), FALSE),
      PublishEntityState("d1", Object("d1")) }
NoData == [none |-> TRUE]

\* The Frontend callback a step ran, the client it was about and the event
\* data it was given.
FHandled(name, c, data) == [name |-> name, client |-> c, data |-> data]

\* The Frontend after its constructor (lines 175-191): no server, no
\* WebSocket server, no subscription.
FrontendConstructed ==
    /\ server = "undefined"
    /\ stopPc = "idle"
    /\ subscribed = {}
    /\ readyState = [c \in Clients |-> "NONE"]
    /\ clients = {}
    /\ closeCode = [c \in Clients |-> 0]
    /\ accepted = {}
    /\ inbox = [c \in Clients |-> << >>]
    /\ events = 0
    /\ fhandled = FHandled("constructor", Undefined, NoData)

(* ------------------------------ Init ---------------------------------- *)

\* The network: d1 is any kind of device, d2 a router that can be configured.
Networks == {n \in [Devices -> DeviceProfiles] : n["d2"] = RouterProfile}

Init ==
    /\ device \in Networks
    /\ meta \in [Devices -> {Undefined, ConfigureKey}]
    /\ saved = meta
    /\ listeners = {}
    /\ sweepPc = "idle"
    /\ sweepIdx = 0
    /\ configuring = {}
    /\ attempts = << >>
    /\ calls = EmptyBag
    /\ received = 0
    /\ published = 0
    /\ response = NoResponse
    /\ escaped = {}
    /\ handled = Handled("constructor", Undefined, Undefined)
    /\ logged = << >>
    /\ saves = 0
    /\ emitted = 0
    /\ overtaken = {}
    /\ FrontendConstructed
    /\ authToken = Undefined
    /\ lastSeen = "disable"
    /\ retained = << >>

(* ----------------------------- start() -------------------------------- *)

\* Lines 59-84 with the subscriptions of lines 70-81 left for after the
\* sweep: start() schedules the sweep and registers nothing yet.
startSweepingFirst ==
    /\ UNCHANGED fvars
    /\ UNCHANGED overtaken
    /\ sweepPc = "idle"
    /\ sweepPc' = "scheduled"
    /\ handled' = Handled("start", Undefined, Undefined)
    /\ logged' = << >>
    /\ saves' = 0
    /\ emitted' = 0
    /\ UNCHANGED <<device, meta, saved, listeners, sweepIdx, configuring, attempts, calls,
                   received, published, escaped>>
    /\ response' = NoResponse

\* Lines 59-84: schedules the sweep with setImmediate, registers the five
\* subscriptions and returns.
start ==
    /\ UNCHANGED fvars
    /\ UNCHANGED overtaken
    /\ sweepPc = "idle"
    /\ sweepPc' = "scheduled"
    /\ listeners' = AllListeners
    /\ handled' = Handled("start", Undefined, Undefined)
    /\ logged' = << >>
    /\ saves' = 0
    /\ emitted' = 0
    /\ UNCHANGED <<device, meta, saved, sweepIdx, configuring, attempts, calls,
                   received, published, escaped>>
    /\ response' = NoResponse

\* Lines 60-65: the setImmediate callback runs up to its first sleep (or to
\* the end of the loop when there is no router).
SweepBegin ==
    /\ UNCHANGED fvars
    /\ UNCHANGED overtaken
    /\ sweepPc = "scheduled"
    /\ sweepPc' = SweepAfter(0).pc
    /\ sweepIdx' = SweepAfter(0).idx
    /\ handled' = Handled("sweepBegin", Undefined, Undefined)
    /\ logged' = << >>
    /\ saves' = 0
    /\ emitted' = 0
    /\ UNCHANGED <<device, meta, saved, listeners, configuring, attempts, calls,
                   received, published, escaped>>
    /\ response' = NoResponse

\* Lines 65-66: the sleep is over; configure(device, "started") runs up to
\* its await, or returns at once and the loop goes on to the next sleep.
SweepConfigure ==
    /\ UNCHANGED fvars
    /\ UNCHANGED overtaken
    /\ sweepPc = "sleeping"
    /\ LET d == Routers[sweepIdx]
           r == configure(d, "started", FALSE, FALSE, "start", meta)
       IN /\ configuring' = r.configuring
          /\ attempts' = r.attempts
          /\ calls' = r.calls
          /\ logged' = r.logged
          /\ sweepPc' = IF r.invoked THEN "awaiting" ELSE SweepAfter(sweepIdx).pc
          /\ sweepIdx' = IF r.invoked THEN sweepIdx ELSE SweepAfter(sweepIdx).idx
          /\ handled' = Handled("sweep", d, Undefined)
    /\ saves' = 0
    /\ emitted' = 0
    /\ UNCHANGED <<device, meta, saved, listeners, received, published, escaped>>
    /\ response' = NoResponse

(* --------------------------- bus events ------------------------------- *)

\* The handlers that drop the marker first: lines 71-74 and 21-24.
ClearMarker(d) == [meta EXCEPT ![d] = Undefined]

\* The markers configure() would find if it were called before lines 21-24
\* (71-74) instead of after them.
MarkersBeforeClearing(d) == meta

\* The markers configure() finds when those handlers call it: the marker
\* of d is gone by then.
MarkersAtCall(d) == ClearMarker(d)

\* A handler that clears the marker, saves, and calls configure (lines
\* 19-27 and 70-77).
Reconfiguring(name, d, event, caller) ==
    /\ UNCHANGED fvars
    /\ overtaken' = IF d \in configuring THEN overtaken \cup {d} ELSE overtaken \ {d}
    /\ name \in listeners
    /\ LET m == ClearMarker(d)
           r == configure(d, event, FALSE, FALSE, caller, MarkersAtCall(d))
       IN /\ meta' = m
          /\ saved' = IF meta[d] # Undefined THEN [saved EXCEPT ![d] = m[d]] ELSE saved
          /\ saves' = IF meta[d] # Undefined THEN 1 ELSE 0
          /\ configuring' = r.configuring
          /\ attempts' = r.attempts
          /\ calls' = r.calls
          /\ logged' = r.logged
    /\ handled' = Handled(name, d, Undefined)
    /\ emitted' = 0
    /\ UNCHANGED <<device, listeners, sweepPc, sweepIdx, received, published, escaped>>
    /\ response' = NoResponse

\* A handler that only calls configure (lines 78 and 79).
Triggering(name, d, event, caller) ==
    /\ UNCHANGED fvars
    /\ UNCHANGED overtaken
    /\ name \in listeners
    /\ LET r == configure(d, event, FALSE, FALSE, caller, meta)
       IN /\ configuring' = r.configuring
          /\ attempts' = r.attempts
          /\ calls' = r.calls
          /\ logged' = r.logged
    /\ handled' = Handled(name, d, Undefined)
    /\ saves' = 0
    /\ emitted' = 0
    /\ UNCHANGED <<device, meta, saved, listeners, sweepPc, sweepIdx, received, published, escaped>>
    /\ response' = NoResponse

\* Lines 19-27.
onReconfigure(d) == Reconfiguring("reconfigure", d, "reporting_disabled", "listener")

\* Lines 70-77.
onDeviceJoined(d) == Reconfiguring("deviceJoined", d, "zigbee_event", "listener")

\* Line 78.
onDeviceInterview(d) == Triggering("deviceInterview", d, "zigbee_event", "listener")

\* Line 79.
onLastSeenChanged(d) == Triggering("lastSeenChanged", d, "zigbee_event", "listener")


(* ---------------------- onMQTTMessage, lines 29-57 -------------------- *)

\* Lines 53-55: the response is published.
Respond(ID, error) ==
    /\ published' = published + 1
    /\ response' = getResponse(ID, error)

\* The step publishes nothing.
Silent == /\ UNCHANGED published
          /\ response' = NoResponse

onMQTTMessage(t, message) ==
    /\ "mqttMessage" \in listeners
    /\ UNCHANGED fvars
    /\ UNCHANGED overtaken
    /\ saves' = 0
    /\ emitted' = 0
    /\ IF t # topic
       THEN /\ handled' = Handled("mqttOther", Undefined, Undefined)
            /\ logged' = << >>
            /\ UNCHANGED <<device, meta, saved, listeners, sweepPc, sweepIdx, configuring,
                           attempts, calls, received, escaped>>
            /\ Silent
       ELSE /\ received < MaxRequests
            /\ received' = received + 1
            /\ UNCHANGED <<device, meta, saved, listeners, sweepPc, sweepIdx>>
            /\ LET parsed == parseJSON(message, message)
               IN IF TypeOf(parsed) = "object" /\ parsed.form = "null"
                  THEN \* line 32: message.id of null is a TypeError
                       /\ escaped' = escaped \cup {[handler |-> "onMQTTMessage", error |-> "TypeError"]}
                       /\ handled' = Handled("mqttMessage", Undefined, Undefined)
                       /\ logged' = << >>
                       /\ Silent
                       /\ UNCHANGED <<configuring, attempts, calls>>
                  ELSE LET ID == IF TypeOf(parsed) = "object" THEN parsed.id ELSE parsed.text
                           entity == resolveEntity(ID)
                           d == entity.ieeeAddr
                       IN /\ UNCHANGED escaped
                          /\ IF ID = Undefined
                             THEN /\ Respond(ID, "Invalid payload")
                                  /\ handled' = Handled("mqttMessage", Undefined, Undefined)
                                  /\ logged' = << >>
                                  /\ UNCHANGED <<configuring, attempts, calls>>
                             ELSE IF entity.kind # "Device"
                             THEN /\ Respond(ID, "Device does not exist")
                                  /\ handled' = Handled("mqttMessage", Undefined, Undefined)
                                  /\ logged' = << >>
                                  /\ UNCHANGED <<configuring, attempts, calls>>
                             ELSE IF NoRoutine(d)
                             THEN /\ Respond(ID, "Device cannot be configured")
                                  /\ handled' = Handled("mqttMessage", d, Undefined)
                                  /\ logged' = << >>
                                  /\ UNCHANGED <<configuring, attempts, calls>>
                             ELSE LET r == configure(d, "mqtt_message", TRUE, TRUE,
                                                     "onMQTTMessage", meta)
                                  IN /\ configuring' = r.configuring
                                     /\ attempts' = r.attempts
                                     /\ calls' = r.calls
                                     /\ logged' = r.logged
                                     /\ handled' = Handled("mqttMessage", d, Undefined)
                                     /\ IF r.invoked
                                        THEN Silent
                                        ELSE Respond(ID, Undefined)

(* ------------- the routine settles: lines 123-139 and after ----------- *)

\* Line 134 without its test: every failure is rethrown.
RethrowsAlways(c) == TRUE

\* Whether configure() rethrows the routine's failure to its caller (line 134).
Rethrows(c) == c.throwError

\* The caller's continuation once configure() has settled; thrown tells
\* whether configure() rejected.  start: the for loop of lines 63-67 goes
\* on, or the task dies with the exception.  onMQTTMessage: lines 47-55.
\* The other handlers have nothing left to do.
Resume(c, thrown) ==
    /\ IF c.caller = "start"
       THEN /\ sweepPc' = IF thrown THEN "aborted" ELSE SweepAfter(sweepIdx).pc
            /\ sweepIdx' = IF thrown THEN sweepIdx ELSE SweepAfter(sweepIdx).idx
       ELSE UNCHANGED <<sweepPc, sweepIdx>>
    /\ IF c.caller = "onMQTTMessage"
       THEN Respond(c.device, IF thrown THEN "Failed to configure" ELSE Undefined)
       ELSE Silent
    /\ IF thrown /\ c.caller # "onMQTTMessage"
       THEN escaped' = escaped \cup {[handler |-> c.caller, error |-> "configure"]}
       ELSE UNCHANGED escaped

\* Lines 124-127 followed by a reset of the counter.
SucceededResetting(d) ==
    /\ meta' = [meta EXCEPT ![d] = ConfigureKey]
    /\ saved' = [saved EXCEPT ![d] = ConfigureKey]
    /\ saves' = 1
    /\ emitted' = 1
    /\ logged' = <<Log("Successfully configured", d, 0)>>
    /\ attempts' = [attempts EXCEPT ![d] = 0]

\* Lines 124-127 without the save of line 126.
SucceededWithoutSave(d) ==
    /\ meta' = [meta EXCEPT ![d] = ConfigureKey]
    /\ saves' = 0
    /\ emitted' = 1
    /\ logged' = <<Log("Successfully configured", d, 0)>>
    /\ UNCHANGED <<attempts, saved>>

\* Lines 124-127: what a success does to the marker, the store and the bus;
\* the counter is not touched.
Succeeded(d) ==
    /\ meta' = [meta EXCEPT ![d] = ConfigureKey]
    /\ saved' = [saved EXCEPT ![d] = ConfigureKey]
    /\ saves' = 1
    /\ emitted' = 1
    /\ logged' = <<Log("Successfully configured", d, 0)>>
    /\ UNCHANGED attempts

\* Lines 129-132: what a failure does to the counter and the log.
Failed(d) ==
    /\ attempts' = [attempts EXCEPT ![d] = @ + 1]
    /\ logged' = <<Log("Failed to configure", d, attempts[d] + 1)>>
    /\ saves' = 0
    /\ emitted' = 0
    /\ UNCHANGED <<meta, saved>>

\* Line 138 as the last statement of the function instead of a finally
\* block: it is not reached when line 135 rethrows.
ReleaseUnlessThrown(c, thrown) ==
    configuring' = IF thrown THEN configuring ELSE configuring \ {c.device}

\* Line 138: the finally block, run whether or not the catch block rethrew.
Release(c, thrown) == configuring' = configuring \ {c.device}

\* The routine of call c resolves: lines 124-127, the finally of line 138,
\* then the caller's continuation.
RoutineReturns(c) ==
    /\ UNCHANGED fvars
    /\ overtaken' = overtaken \ {c.device}
    /\ BagIn(c, calls)
    /\ calls' = calls (-) SetToBag({c})
    /\ Succeeded(c.device)
    /\ Release(c, FALSE)
    /\ Resume(c, FALSE)
    /\ handled' = Handled("routineReturned", c.device, c.caller)
    /\ UNCHANGED <<device, listeners, received>>

\* The routine of call c rejects: lines 129-136, the finally of line 138,
\* then the caller's continuation.
RoutineThrows(c) ==
    /\ UNCHANGED fvars
    /\ overtaken' = overtaken \ {c.device}
    /\ BagIn(c, calls)
    /\ calls' = calls (-) SetToBag({c})
    /\ Failed(c.device)
    /\ Release(c, Rethrows(c))
    /\ Resume(c, Rethrows(c))
    /\ handled' = Handled("routineThrew", c.device, c.caller)
    /\ UNCHANGED <<device, listeners, received>>

(* ------------------------------- Next --------------------------------- *)

Next ==
    \/ start
    \/ SweepBegin
    \/ SweepConfigure
    \/ \E d \in Devices : onReconfigure(d)
    \/ \E d \in Devices : onDeviceJoined(d)
    \/ \E d \in Devices : onDeviceInterview(d)
    \/ \E d \in Devices : onLastSeenChanged(d)
    \/ \E data \in MQTTMessages : onMQTTMessage(data.topic, data.message)
    \/ \E c \in BagToSet(calls) : RoutineReturns(c)
    \/ \E c \in BagToSet(calls) : RoutineThrows(c)

Spec == Init /\ [][Next]_vars

\* The device's routine settles: every invocation of it eventually returns or throws.
Settles(d) == \E c \in CallsOf(d) : RoutineReturns(c) \/ RoutineThrows(c)

FairSpec == Spec /\ \A d \in Devices : WF_vars(Settles(d))



(* ---------------------- Frontend, lines 167-372 ----------------------- *)

\* JavaScript's !value for a string-valued setting.
Falsy(value) == value \in {Undefined, ""}

\* Line 298: the test that lets an upgrade through.
Authorized(token) == Falsy(authToken) \/ authToken = token

\* Lines 316-326: one message per retained message under the base topic,
\* in the order of Object.entries.
RetainedReplay ==
    LET under == SelectSeq(retained, LAMBDA e : startsWithBase(e.topic))
    IN [i \in 1..Len(under) |->
            Message(stripBase(under[i].topic), parseJSON(under[i].payload, under[i].payload))]

\* Lines 329-338: the payload of a device's snapshot.
Snapshot(d) ==
    [state |-> d, last_seen |-> IF lastSeen # "disable" THEN "formatted" ELSE Undefined]

\* Lines 328-341: one message per device that is not the coordinator, in
\* the order of devicesIterator.
Snapshots ==
    LET ds == SelectSeq(DeviceOrder, LAMBDA d : device[d].type # "Coordinator")
    IN [i \in 1..Len(ds) |-> Message(<<ds[i]>>, Snapshot(ds[i]))]

\* Lines 316-341 with the two loops in the other order.
SnapshotsFirst == Snapshots \o RetainedReplay

\* Lines 316-341: what onWebSocketConnection sends, in order.
Replay == RetainedReplay \o Snapshots

\* Line 350 without the test of isEntityState.
DroppedOutsideBaseOnly(data) == ~startsWithBase(data.topic)

\* Line 350: the MQTTMessagePublished events that are not forwarded.
Dropped(data) == data.options.meta.isEntityState \/ ~startsWithBase(data.topic)

\* Lines 348-364: the messages (none or one) an event is turned into.
Mirrored(data) ==
    IF "topic" \in DOMAIN data
    THEN IF Dropped(data) THEN << >>
         ELSE <<Message(stripBase(data.topic), parseJSON(data.payload, data.payload))>>
    ELSE <<Message(<<data.entity>>, data.message)>>

\* The send() calls msgs on a socket in readyState state, appended to box.
Deliver(box, msgs, state) == box \o [i \in 1..Len(msgs) |-> Sent(msgs[i], state)]

\* Lines 193-248: the WebSocket server and the HTTP server are created, the
\* two subscriptions registered, and the server listens.
Frontend_start ==
    /\ server = "undefined" /\ stopPc = "idle"
    /\ server' = "listening"
    /\ subscribed' = {"mqttMessagePublished", "publishEntityState"}
    /\ fhandled' = FHandled("start", Undefined, NoData)
    /\ UNCHANGED <<stopPc, authToken, lastSeen, retained, readyState, clients,
                   closeCode, accepted, inbox, events>>
    /\ UNCHANGED cvars

\* Lines 292-304, with lines 306-342 when the connection event is emitted:
\* handleUpgrade completes the handshake (the socket is tracked in
\* wss.clients and open when the callback runs), then the callback either
\* emits "connection", whose handler replays, or closes the socket.
onUpgrade(c, token) ==
    /\ server = "listening" /\ stopPc = "idle"
    /\ readyState[c] = "NONE"
    /\ clients' = clients \cup {c}
    /\ IF Authorized(token)
       THEN /\ accepted' = accepted \cup {c}
            /\ readyState' = [readyState EXCEPT ![c] = "OPEN"]
            /\ inbox' = [inbox EXCEPT ![c] = Deliver(@, Replay, "OPEN")]
            /\ UNCHANGED closeCode
       ELSE /\ readyState' = [readyState EXCEPT ![c] = "CLOSING"]
            /\ closeCode' = [closeCode EXCEPT ![c] = Unauthorized]
            /\ UNCHANGED <<accepted, inbox>>
    /\ fhandled' = FHandled("onUpgrade", c, [token |-> token])
    /\ UNCHANGED <<server, stopPc, subscribed, authToken, lastSeen, retained, events>>
    /\ UNCHANGED cvars

\* Lines 366-370: the message is sent to every tracked client that is open.
Broadcast(msgs) ==
    inbox' = [c \in Clients |->
                 IF c \in clients /\ readyState[c] = "OPEN"
                 THEN Deliver(inbox[c], msgs, readyState[c])
                 ELSE inbox[c]]

\* The bus emits an event; lines 344-371 run if the Frontend is subscribed
\* to it (lines 235-236).
onMQTTPublishMessageOrEntityState(data) ==
    /\ events < MaxEvents
    /\ events' = events + 1
    /\ LET name == IF "topic" \in DOMAIN data THEN "mqttMessagePublished"
                   ELSE "publishEntityState"
       IN IF name \in subscribed
          THEN /\ Broadcast(Mirrored(data))
               /\ fhandled' = FHandled("onMQTTPublishMessageOrEntityState", Undefined, data)
          ELSE /\ UNCHANGED inbox
               /\ fhandled' = FHandled("unheard", Undefined, data)
    /\ UNCHANGED <<server, stopPc, subscribed, authToken, lastSeen, retained,
                   readyState, clients, closeCode, accepted>>
    /\ UNCHANGED cvars

\* An open socket starts closing (the peer sent a close frame).
PeerCloses(c) ==
    /\ readyState[c] = "OPEN"
    /\ readyState' = [readyState EXCEPT ![c] = "CLOSING"]
    /\ fhandled' = FHandled("peerCloses", c, NoData)
    /\ UNCHANGED <<server, stopPc, subscribed, authToken, lastSeen, retained,
                   clients, closeCode, accepted, inbox, events>>
    /\ UNCHANGED cvars

\* A closing socket is closed: its "close" event removes it from wss.clients.
CloseCompletes(c) ==
    /\ readyState[c] = "CLOSING"
    /\ readyState' = [readyState EXCEPT ![c] = "CLOSED"]
    /\ clients' = clients \ {c}
    /\ fhandled' = FHandled("closed", c, NoData)
    /\ UNCHANGED <<server, stopPc, subscribed, authToken, lastSeen, retained,
                   closeCode, accepted, inbox, events>>
    /\ UNCHANGED cvars

\* Extension.stop() without its call of removeListeners.
StillSubscribed == subscribed

\* Extension.stop() (extension.ts, lines 53-55): the subscriptions that
\* are left after eventBus.removeListeners(this).
Revoked == {}

\* Lines 250-251: stop() calls super.stop(), which removes the listeners,
\* and is suspended at its await.
Frontend_stop ==
    /\ stopPc = "idle"
    /\ stopPc' = "revoked"
    /\ subscribed' = Revoked
    /\ fhandled' = FHandled("stop", Undefined, NoData)
    /\ UNCHANGED <<server, authToken, lastSeen, retained, readyState, clients,
                   closeCode, accepted, inbox, events>>
    /\ UNCHANGED cvars

\* Lines 253-262: if there is a WebSocket server, every tracked client is
\* sent the offline notification and terminated; then the HTTP server, if
\* there is one, is asked to close, and stop() awaits its callback.
StopClients ==
    /\ stopPc = "revoked"
    /\ stopPc' = "closing"
    /\ IF server # "undefined"
       THEN /\ inbox' = [c \in Clients |->
                            IF c \in clients
                            THEN Deliver(inbox[c], <<Offline>>, readyState[c])
                            ELSE inbox[c]]
            /\ readyState' = [c \in Clients |->
                                 IF c \in clients THEN "CLOSING" ELSE readyState[c]]
            /\ server' = "closing"
       ELSE UNCHANGED <<inbox, readyState, server>>
    /\ fhandled' = FHandled("stopClients", Undefined, NoData)
    /\ UNCHANGED <<subscribed, authToken, lastSeen, retained, clients, closeCode,
                   accepted, events>>
    /\ UNCHANGED cvars

\* Line 262: the callback of server.close fires and stop() returns.
ServerClosed ==
    /\ stopPc = "closing" /\ server = "closing"
    /\ server' = "closed"
    /\ stopPc' = "done"
    /\ fhandled' = FHandled("stopped", Undefined, NoData)
    /\ UNCHANGED <<subscribed, authToken, lastSeen, retained, readyState, clients,
                   closeCode, accepted, inbox, events>>
    /\ UNCHANGED cvars

\* The Frontend reads only the type of a device (line 328): d1 is a router,
\* an end device or the coordinator.
FrontendNetworks ==
    {n \in Networks : ~n["d1"].disabled /\ n["d1"].interviewed
                         /\ n["d1"].hasConfigure = (n["d1"].type # "Coordinator")}

\* The Frontend with its settings, the retained messages and the devices;
\* the Configure extension is left as constructed.
FrontendInit ==
    /\ device \in FrontendNetworks
    /\ meta = [d \in Devices |-> Undefined]
    /\ saved = meta
    /\ listeners = {}
    /\ sweepPc = "idle"
    /\ sweepIdx = 0
    /\ configuring = {}
    /\ attempts = << >>
    /\ calls = EmptyBag
    /\ received = 0
    /\ published = 0
    /\ response = NoResponse
    /\ escaped = {}
    /\ handled = Handled("constructor", Undefined, Undefined)
    /\ logged = << >>
    /\ saves = 0
    /\ emitted = 0
    /\ overtaken = {}
    /\ FrontendConstructed
    /\ authToken \in AuthTokens
    /\ lastSeen \in {"disable", "ISO_8601"}
    /\ retained \in RetainedMaps

FrontendNext ==
    \/ Frontend_start
    \/ \E c \in Clients, token \in QueryTokens : onUpgrade(c, token)
    \/ \E data \in BusEvents : onMQTTPublishMessageOrEntityState(data)
    \/ \E c \in Clients : PeerCloses(c)
    \/ \E c \in Clients : CloseCompletes(c)
    \/ Frontend_stop
    \/ StopClients
    \/ ServerClosed

FrontendSpec == FrontendInit /\ [][FrontendNext]_vars

(* ------------------------------ claims -------------------------------- *)

\* attemptCount(D): the counter, 0 while its key is not set.
AttemptCount(d) == IF d \in DOMAIN attempts THEN attempts[d] ELSE 0

\* The last step invoked d's configure routine (it logged line 121).
Invoked(d) == logged = <<Log("Configuring", d, 0)>>

\* d passes lines 92-99: it has a routine, is enabled and interviewed.
Configurable(d) ==
    device[d].hasConfigure /\ ~device[d].disabled /\ device[d].interviewed

\* C1: for every device, at most one invocation of its configure routine
\* is in flight in every reachable state, whatever the interleaving of the
\* sweep, the bus events and the configure requests.
C1_MutualExclusion == \A d \in Devices : InFlight(d) <= 1

\* A forced request for d was handled while d's routine was awaited, and
\* started nothing.
C1_Witness ==
    \E d \in Devices :
        /\ handled = Handled("mqttMessage", d, Undefined)
        /\ device[d].hasConfigure
        /\ InFlight(d) = 1
        /\ logged = << >>

\* C2: while attemptCount(D) >= 3, a step that invokes D's routine is the
\* handling of a configure request (the forced path); the sweep and the
\* four bus events never invoke it.
C2_RetryCeiling ==
    \A d \in Devices :
        AttemptCount(d) >= 3 /\ Invoked(d) => handled.name = "mqttMessage"

\* A last-seen event for a device that passes every other gate, with three
\* failed attempts behind it, started nothing.
C2_Witness ==
    \E d \in Devices :
        /\ handled = Handled("lastSeenChanged", d, Undefined)
        /\ AttemptCount(d) = 3
        /\ Configurable(d) /\ meta[d] = Undefined /\ d \notin configuring
        /\ logged = << >>

\* C3: while D carries a configured marker, only a reconfigure or
\* device-joined event for D removes it, and a step that invokes D's
\* routine is the handling of one of those two events or of a (forced)
\* configure request: the sweep, interview and last-seen events do not.
C3_Idempotence ==
    [][\A d \in Devices :
         meta[d] # Undefined =>
            /\ meta'[d] = Undefined =>
                   handled'.name \in {"reconfigure", "deviceJoined"} /\ handled'.device = d
            /\ Invoked(d)' =>
                   handled'.name \in {"reconfigure", "deviceJoined", "mqttMessage"}]_vars

\* A last-seen event for a device that passes every other gate and whose
\* marker was set after an attempt of this process started nothing.
C3_Witness ==
    \E d \in Devices :
        /\ handled = Handled("lastSeenChanged", d, Undefined)
        /\ meta[d] = ConfigureKey /\ d \in DOMAIN attempts
        /\ Configurable(d) /\ AttemptCount(d) < 3 /\ d \notin configuring
        /\ logged = << >>

\* C4: a device without a configure routine is never in this.configuring,
\* never gets a key in this.attempts and never has an invocation in flight.
C4_NoRoutineUntouched ==
    \A d \in Devices :
        ~device[d].hasConfigure =>
            d \notin configuring /\ d \notin DOMAIN attempts /\ InFlight(d) = 0

\* A configure request for a device without a routine was answered with
\* "cannot be configured".
C4_Witness ==
    \E d \in Devices :
        /\ ~device[d].hasConfigure
        /\ handled = Handled("mqttMessage", d, Undefined)
        /\ response = getResponse(d, "Device cannot be configured")

\* C5: when an attempt for D finishes (the routine returned, threw and was
\* absorbed, or threw and was rethrown), D is not in this.configuring
\* afterwards, and D is in this.configuring exactly while an invocation of
\* its routine is pending; so, the routine settling, a state with D in
\* this.configuring is always followed by one with D out of it.
C5_Release ==
    /\ [](\A d \in Devices :
            /\ d \in configuring <=> InFlight(d) > 0
            /\ handled.name \in {"routineReturned", "routineThrew"} /\ handled.device = d
                  => d \notin configuring)
    /\ \A d \in Devices : []<>(d \notin configuring)

\* A forced attempt failed, was rethrown to onMQTTMessage and answered with
\* an error, and the device is out of this.configuring.
C5_Witness ==
    \E d \in Devices :
        /\ handled = Handled("routineThrew", d, "onMQTTMessage")
        /\ response = getResponse(d, "Failed to configure")
        /\ d \notin configuring

\* C6: attemptCount(D) never decreases and its key is never removed; a step
\* raises it, by exactly one, if and only if the step is the failure of an
\* attempt for D; a success (forced or not) and every skipped trigger leave
\* it as it is.
C6_AttemptCount ==
    [][\A d \in Devices :
         /\ d \in DOMAIN attempts => d \in DOMAIN attempts'
         /\ AttemptCount(d)' =
               AttemptCount(d)
                  + (IF handled'.name = "routineThrew" /\ handled'.device = d THEN 1 ELSE 0)]_vars

\* A forced attempt succeeded for a device with three failures behind it,
\* and the counter still reads three.
C6_Witness ==
    \E d \in Devices :
        /\ handled = Handled("routineReturned", d, "onMQTTMessage")
        /\ AttemptCount(d) = 3

\* The handlers of configure requests suspended at line 46.
PendingRequests ==
    SumCopies(calls, {c \in BagToSet(calls) : c.caller = "onMQTTMessage"})

\* C7: every message received on the configure request topic is answered by
\* exactly one publication on bridge/response/device/configure (the
\* requests whose routine is still awaited apart), and a message on another
\* topic by none.
C7_EveryRequestAnswered == received = published + PendingRequests

\* C8: a failure of a configure routine never leaves a handler and never
\* ends the sweep; it is rethrown only to onMQTTMessage, which answers
\* "Failed to configure"; on the other paths it is absorbed after the
\* counter was incremented, and the sweep goes on to its next router.  The
\* other error responses are the three validation errors, published by the
\* handler itself without any invocation.
C8_FailurePropagation ==
    /\ \A e \in escaped : e.error # "configure"
    /\ sweepPc # "aborted"
    /\ handled.name = "routineThrew" =>
          /\ logged = <<Log("Failed to configure", handled.device, attempts[handled.device])>>
          /\ attempts[handled.device] >= 1
          /\ response = IF handled.caller = "onMQTTMessage"
                          THEN getResponse(handled.device, "Failed to configure")
                          ELSE NoResponse
          /\ handled.caller = "start" => sweepPc \in {"sleeping", "done"}
    /\ handled.name = "mqttMessage" /\ response.status = "error" =>
          /\ response.error \in {"Invalid payload", "Device does not exist",
                                 "Device cannot be configured"}
          /\ logged = << >>

\* The routine of the sweep's first router failed, and the sweep sleeps
\* before its second router.
C8_Witness ==
    /\ handled = Handled("routineThrew", Routers[1], "start")
    /\ sweepPc = "sleeping" /\ sweepIdx = 2
    /\ escaped = {}

\* C9: a step in which D's routine returns sets D's marker to the configure
\* key, saves the device once and emits devicesChanged once; a step in which
\* it fails leaves every marker and the store as they are; and no step but
\* a success emits devicesChanged.
C9_OutcomeEffects ==
    [][/\ handled'.name = "routineReturned" =>
            /\ meta'[handled'.device] = ConfigureKey
            /\ saved'[handled'.device] = ConfigureKey
            /\ saves' = 1 /\ emitted' = 1
       /\ handled'.name = "routineThrew" => meta' = meta /\ saved' = saved
       /\ handled'.name # "routineReturned" => emitted' = 0]_vars

\* The sweep's attempt for a router succeeded: marker set and saved, one
\* devicesChanged.
C9_Witness ==
    \E d \in Devices :
        /\ handled = Handled("routineReturned", d, "start")
        /\ meta[d] = ConfigureKey /\ saved[d] = ConfigureKey
        /\ emitted = 1

\* C10: a reconfigure or device-joined event for D leaves D without marker,
\* in memory and in the store (saved when there was one), and the gates see
\* D without marker: the routine is invoked exactly when D is configurable
\* (for reconfigure: and no end device), not in this.configuring and below
\* the ceiling, whether or not D carried a marker.
C10_ClearBeforeGates ==
    [][\A d \in Devices :
         handled'.name \in {"reconfigure", "deviceJoined"} /\ handled'.device = d =>
            /\ meta'[d] = Undefined /\ saved'[d] = Undefined
            /\ saves' = IF meta[d] # Undefined THEN 1 ELSE 0
            /\ Invoked(d)' <=>
                  /\ Configurable(d)
                  /\ ~(device[d].type = "EndDevice" /\ handled'.name = "reconfigure")
                  /\ d \notin configuring
                  /\ AttemptCount(d) < 3]_vars

\* A device-joined event removed and saved the marker of a device and
\* invoked its routine.
C10_Witness ==
    \E d \in Devices :
        /\ handled = Handled("deviceJoined", d, Undefined)
        /\ saves = 1
        /\ Invoked(d)


\* An auth token is configured (a non-empty string).
TokenConfigured == authToken \notin {Undefined, ""}

\* C11: with a token configured, an upgrade whose query token differs or is
\* missing is closed with 4401 and not handed to the connection handler,
\* and a client closed with 4401 has never been sent anything: no replay,
\* no mirrored bus message, no offline notification.  Without a configured
\* token every upgrade is handed to the connection handler.
C11_UnauthorizedNeverServed ==
    [][\A c \in Clients :
         /\ fhandled'.name = "onUpgrade" /\ fhandled'.client = c =>
               IF TokenConfigured /\ fhandled'.data.token # authToken
               THEN closeCode'[c] = 4401 /\ c \notin accepted'
               ELSE closeCode'[c] = 0 /\ c \in accepted'
         /\ closeCode'[c] = 4401 => inbox'[c] = << >> /\ c \notin accepted']_vars


\* The send() call e handed over the bridge/state offline notification.
IsOffline(e) == e.topic = <<"bridge", "state">> /\ e.payload = [state |-> "offline"]

\* C12: stop() first removes the Frontend's bus subscriptions; then, in one
\* run, sends the offline notification to every tracked client, terminates
\* it and asks the HTTP server to close; and is done only when the server
\* has closed.  From the start of stop() on, a bus event changes no inbox,
\* and the only send() calls are those offline notifications, each the last
\* of its inbox.
C12_Shutdown ==
    [][/\ stopPc' # "idle" => subscribed' = {}
       /\ server' \in {"closing", "closed"} =>
             /\ stopPc' \in {"closing", "done"}
             /\ \A c \in Clients : readyState'[c] # "OPEN"
       /\ stopPc' = "done" => server' = "closed"
       /\ stopPc # "idle" =>
             \A c \in Clients :
                IF stopPc = "revoked" /\ stopPc' = "closing" /\ c \in clients
                     /\ server # "undefined"
                THEN /\ Len(inbox'[c]) = Len(inbox[c]) + 1
                     /\ SubSeq(inbox'[c], 1, Len(inbox[c])) = inbox[c]
                     /\ IsOffline(inbox'[c][Len(inbox'[c])])
                     /\ readyState'[c] = "CLOSING"
                ELSE inbox'[c] = inbox[c]]_vars

\* stop() has returned; a client that had been replayed to got the offline
\* notification as its last message.
C12_Witness ==
    /\ stopPc = "done" /\ server = "closed"
    /\ \E c \in accepted :
          /\ Len(inbox[c]) >= 2
          /\ IsOffline(inbox[c][Len(inbox[c])])
          /\ ~IsOffline(inbox[c][1])


\* The topics (none or one) under which an event is to reach the clients: a
\* publish-completed event that is not flagged as entity state and lies
\* under zigbee2mqtt/ keeps its topic without that prefix, an entity-state
\* event goes out under the entity's name, every other event is dropped.
ForwardedTopics(data) ==
    IF "entity" \in DOMAIN data THEN << <<data.entity>> >>
    ELSE IF data.options.meta.isEntityState THEN << >>
    ELSE IF Len(data.topic) < 2 \/ data.topic[1] # "zigbee2mqtt" THEN << >>
    ELSE <<Tail(data.topic)>>

\* C13: when the subscribed Frontend handles a publish-completed or an
\* entity-state event, every client that is open gets exactly the messages
\* of ForwardedTopics (one or none), appended to what it was sent before,
\* and every other client gets nothing.
C13_ForwardedOnce ==
    [][fhandled'.name = "onMQTTPublishMessageOrEntityState" =>
         LET ts == ForwardedTopics(fhandled'.data)
         IN \A c \in Clients :
               IF readyState[c] = "OPEN"
               THEN /\ Len(inbox'[c]) = Len(inbox[c]) + Len(ts)
                    /\ SubSeq(inbox'[c], 1, Len(inbox[c])) = inbox[c]
                    /\ \A i \in 1..Len(ts) : inbox'[c][Len(inbox[c]) + i].topic = ts[i]
               ELSE inbox'[c] = inbox[c]]_vars

\* A publish-completed event flagged as entity state was handled while a
\* client was open, and that client has been sent its replay only.
C13_Witness ==
    /\ fhandled.name = "onMQTTPublishMessageOrEntityState"
    /\ "topic" \in DOMAIN fhandled.data
    /\ fhandled.data.options.meta.isEntityState
    /\ \E c \in Clients : readyState[c] = "OPEN" /\ inbox[c] = Deliver(<< >>, Replay, "OPEN")


\* C14: a configure request for a device that has a routine invokes the
\* routine if and only if the device is not in this.configuring, whatever
\* its options, interview state, marker and attempt counter.
C14_ForcedGate ==
    [][\A d \in Devices :
         handled'.name = "mqttMessage" /\ handled'.device = d /\ device[d].hasConfigure =>
            (Invoked(d)' <=> d \notin configuring)]_vars

\* A configure request invoked the routine of a disabled device that
\* carries a marker.
C14_Witness ==
    \E d \in Devices :
        /\ handled = Handled("mqttMessage", d, Undefined)
        /\ Invoked(d)
        /\ device[d].disabled /\ meta[d] = ConfigureKey


\* The triggers whose event is not "zigbee_event": the sweep ("started"),
\* reconfigure ("reporting_disabled") and a configure request ("mqtt_message").
NotLive == {"sweep", "reconfigure", "mqttMessage"}

\* C15 as claimed: no trigger of NotLive, the configure request included,
\* invokes the routine of an end device.
C15_EndDeviceNeverInvoked ==
    [][\A d \in Devices :
         device[d].type = "EndDevice" /\ handled'.name \in NotLive /\ handled'.device = d
            => ~Invoked(d)']_vars

\* C15 as amended: the sweep and reconfigure never invoke the routine of an
\* end device, while a configure request invokes it unless the device is
\* in this.configuring or has no routine.
C15_EndDeviceFilter ==
    [][\A d \in Devices :
         device[d].type = "EndDevice" /\ handled'.device = d =>
            /\ handled'.name \in {"sweep", "reconfigure"} => ~Invoked(d)'
            /\ handled'.name = "mqttMessage" =>
                  (Invoked(d)' <=> device[d].hasConfigure /\ d \notin configuring)]_vars

\* A configure request invoked the routine of an end device.
C15_Witness ==
    \E d \in Devices :
        /\ device[d].type = "EndDevice"
        /\ handled = Handled("mqttMessage", d, Undefined)
        /\ Invoked(d)


\* The configure() calls of the sweep that await a routine.
SweepCalls == SumCopies(calls, {c \in BagToSet(calls) : c.caller = "start"})

\* C16: the sweep calls configure() only for routers, in the order of the
\* iterator, each index once (a new sleep means the index has moved on, and
\* the index never moves back), and only while no call of the sweep awaits
\* a routine; the call invokes the routine only of a router that is
\* enabled, interviewed and without marker.
C16_SweepScope ==
    [][/\ sweepIdx' >= sweepIdx
       /\ SweepCalls' <= 1
       /\ sweepPc' = "sleeping" /\ (sweepPc # "sleeping" \/ handled'.name = "sweep")
             => sweepIdx' = sweepIdx + 1
       /\ handled'.name = "sweep" =>
             /\ sweepPc = "sleeping" /\ SweepCalls = 0
             /\ \E d \in Devices :
                   /\ handled'.device = d
                   /\ device[d].type = "Router"
                   /\ Invoked(d)' => Configurable(d) /\ meta[d] = Undefined]_vars

\* The sweep invoked the routine of its second router after the attempt
\* for its first router had succeeded.
C16_Witness ==
    /\ handled = Handled("sweep", "d2", Undefined)
    /\ Invoked("d2")
    /\ sweepIdx = 2 /\ sweepPc = "awaiting"
    /\ meta["d1"] = ConfigureKey /\ "d1" \in DOMAIN attempts


\* C17: start() returns with the five subscriptions registered and the
\* sweep only scheduled, so the subscriptions are in place in every state
\* in which the sweep has begun; and whatever the position of the sweep, an
\* interview or last-seen event for a device invokes its routine exactly
\* when the gates of that device let it.
C17_SweepDoesNotBlock ==
    [][/\ sweepPc' # "idle" => listeners' = AllListeners
       /\ handled'.name = "start" =>
             sweepPc' = "scheduled" /\ calls' = EmptyBag /\ configuring' = {}
       /\ \A d \in Devices :
             handled'.name \in {"deviceInterview", "lastSeenChanged"} /\ handled'.device = d =>
                (Invoked(d)' <=>
                    /\ Configurable(d) /\ meta[d] = Undefined
                    /\ d \notin configuring /\ AttemptCount(d) < 3)]_vars

\* While the sweep awaits the routine of d1, an interview event for d2 has
\* invoked the routine of d2: both are in flight.
C17_Witness ==
    /\ sweepPc = "awaiting"
    /\ BagIn(Call("d1", FALSE, "start"), calls)
    /\ BagIn(Call("d2", FALSE, "listener"), calls)
    /\ handled = Handled("deviceInterview", "d2", Undefined)
    /\ Invoked("d2")


\* C18: every send() call, be it of the replay, of the broadcast or of
\* stop(), is made on a socket whose readyState is OPEN.
C18_OnlyOpenWrittenTo ==
    \A c \in Clients : \A i \in 1..Len(inbox[c]) : inbox[c][i].at = "OPEN"


\* The topics of the replay: of the retained messages in the order of the
\* map, those under zigbee2mqtt/ without that prefix, then the names of
\* the devices other than the coordinator, in the order of the iterator.
RECURSIVE RetainedTopics(_)
RetainedTopics(entries) ==
    IF entries = << >> THEN << >>
    ELSE LET t == Head(entries).topic
         IN (IF Len(t) >= 2 /\ t[1] = "zigbee2mqtt" THEN <<Tail(t)>> ELSE << >>)
                \o RetainedTopics(Tail(entries))
RECURSIVE DeviceTopics(_)
DeviceTopics(ds) ==
    IF ds = << >> THEN << >>
    ELSE (IF device[Head(ds)].type = "Coordinator" THEN << >> ELSE << <<Head(ds)>> >>)
            \o DeviceTopics(Tail(ds))
ReplayTopics == RetainedTopics(retained) \o DeviceTopics(DeviceOrder)

\* C19: the step that accepts a client sends it the replay and nothing
\* else, one message per topic of ReplayTopics in that order, and leaves
\* mqtt.retainedMessages as it is; whatever a client is sent later is
\* appended to what it was sent before, so the replay comes first.
C19_ReplayFirst ==
    [][/\ \A c \in accepted' \ accepted :
             /\ fhandled' = FHandled("onUpgrade", c, fhandled'.data)
             /\ retained' = retained
             /\ inbox[c] = << >>
             /\ Len(inbox'[c]) = Len(ReplayTopics)
             /\ \A i \in 1..Len(ReplayTopics) :
                   inbox'[c][i].topic = ReplayTopics[i] /\ inbox'[c][i].at = "OPEN"
       /\ \A c \in accepted :
             /\ c \in accepted'
             /\ Len(inbox'[c]) >= Len(inbox[c])
             /\ SubSeq(inbox'[c], 1, Len(inbox[c])) = inbox[c]]_vars

\* A client was accepted while the map held two retained messages under
\* the base topic and one outside it and d1 was the coordinator; it was
\* sent the two, then the snapshot of d2, and then a mirrored bus message.
C19_Witness ==
    /\ Len(retained) = 3
    /\ device["d1"].type = "Coordinator"
    /\ fhandled.name = "onMQTTPublishMessageOrEntityState"
    /\ \E c \in accepted :
          /\ Len(inbox[c]) = 4
          /\ inbox[c][3].topic = <<"d2">>
          /\ inbox[c][4].topic = <<"bridge", "info">>


\* C20: a response with status ok is published only by the continuation of
\* a configure request whose call invoked the device's routine, once that
\* routine has returned.
C20_OkMeansConfigured ==
    response.status = "ok" =>
        /\ handled.name = "routineReturned"
        /\ handled.caller = "onMQTTMessage"
        /\ response.id = handled.device


\* C21: a marker is only ever set by an attempt that started after the
\* latest device-joined or reconfigure event for its device: the routine
\* of an attempt that such an event has overtaken does not return into
\* lines 125-126.
C21_MarkerNeverStale ==
    [][\A d \in Devices :
         handled'.name = "routineReturned" /\ handled'.device = d /\ meta'[d] # Undefined
            => d \notin overtaken]_vars

====
